---- MODULE Spec2Model ----
(***************************************************************************)
(* A model of the kixx-test-node run controller: the handlers that main()  *)
(* registers on the kixx-test runner (error, blockStart, blockComplete,    *)
(* end), the block tracker registry, error rendering and process exit.     *)
(*                                                                         *)
(* Text is modelled in two ways.  Block and test names are TLA+ strings,   *)
(* joined with \o as Array.prototype.join does.  An error stack is a       *)
(* sequence of one-character strings, so that split, slice, join and trim  *)
(* are computed character by character.                                    *)
(***************************************************************************)
EXTENDS Integers, Sequences, FiniteSets, TLC

VARIABLES
    cfg,            \* maxErrors, maxStack, verbose, quiet of main()
    blockTrackers,  \* the registry: block id -> tracker
    pendingBlocks,  \* buffered pending lines
    testCount,
    errorCount,
    currentBlock,   \* id of the tracker currentBlock refers to, or null
    now,            \* the value Date.now() returns
    output,         \* the writes to process.stdout, in order
    exited,         \* process.exit() has been called
    exitCode,       \* its argument
    nEvents,        \* history: engine events handled so far
    nErrorEvents,   \* history: error events handled so far
    nTestCompletes, \* history: blockComplete events of type test handled
    startedParents, \* history: parents sequences seen in a blockStart
    isNewCount,     \* history: block id -> times setBlock returned true
    lastErr,        \* history: the error value handled last
    pendingEvents,  \* history: the pendingTest events handled, in order
    setups,         \* the setup hooks of the setup files, in discovery order
    teardowns,      \* the teardown hooks, in discovery order
    runStarted,     \* t.run() has been called
    errors,         \* the errors array of main()
    argv,           \* the command line arguments given to main()
    configFiles,    \* the exports of the config.js files, in discovery order
    options,        \* the options main() passes on, once merged
    paths,          \* what main() finds at each path it is to load
    loadIndex,      \* paths walked so far; one more once the chain settled
    testFileLoadCount

vars == <<cfg, blockTrackers, pendingBlocks, testCount, errorCount,
          currentBlock, now, output, exited, exitCode, nEvents, nErrorEvents,
          nTestCompletes, startedParents, isNewCount, lastErr,
          pendingEvents, setups, teardowns, runStarted, errors,
          argv, configFiles, options,
          paths, loadIndex, testFileLoadCount>>

\* What the loading of the test files reads and writes.
loadVars == <<paths, loadIndex, testFileLoadCount>>

\* What the merge of the options reads and writes.
optionVars == <<argv, configFiles, options>>

\* What the hooks and their orchestration in main() read and write.
hookVars == <<setups, teardowns, runStarted, errors>>

(***************************************************************************)
(* Bounds of the model.                                                    *)
(***************************************************************************)
MaxEvents == 3          \* engine events before the end event
MaxMaxErrors == 2       \* largest finite maxErrors configured
MaxStack == 2           \* largest maxStack in the stack specification
MaxTime == 1            \* milliseconds that pass during the run
MaxStackLen == 4        \* characters of a stack in the stack specification

(***************************************************************************)
(* JavaScript values.                                                      *)
(***************************************************************************)
\* null and undefined, where the code only tests truthiness or identity.
null == "<null>"

\* OS.EOL
EOL == "\n"

\* A start time that was never recorded.  Date.now() - null is Date.now() - 0.
NullTime == 0

\* undefined and NaN, where the code tests isNumber.
Undefined == [undefined |-> TRUE]
NaN == [nan |-> TRUE]

\* Numbers that may be Infinity.
Num(n) == [inf |-> FALSE, n |-> n]
Infinity == [inf |-> TRUE, n |-> 0]

\* count >= max, for a finite count.
GreaterOrEqual(count, max) == ~max.inf /\ count >= max.n

\* A string in a boolean context.
Truthy(s) == s # null /\ s # ""

Min(a, b) == IF a < b THEN a ELSE b

Max(a, b) == IF a > b THEN a ELSE b

(***************************************************************************)
(* String and array methods used by the code.                              *)
(***************************************************************************)
\* Array.prototype.join(sep) on an array of strings.
RECURSIVE join(_, _)
join(arr, sep) ==
    IF arr = <<>> THEN ""
    ELSE IF Len(arr) = 1 THEN arr[1]
    ELSE arr[1] \o sep \o join(Tail(arr), sep)

\* String.prototype.split(EOL) on a sequence of characters: the lines.
RECURSIVE split(_)
split(s) ==
    IF s = <<>> THEN << <<>> >>
    ELSE LET rest == split(Tail(s))
         IN  IF Head(s) = EOL
             THEN << <<>> >> \o rest
             ELSE << <<Head(s)>> \o Head(rest) >> \o Tail(rest)

\* slice(-end): the last lines instead of the first.
sliceFromEnd(arr, end) ==
    IF end <= 0 THEN arr
    ELSE SubSeq(arr, Len(arr) - Min(Len(arr), end) + 1, Len(arr))

\* Array.prototype.slice(0, end), for an integer end: a negative end counts
\* from the end of the array.
slice(arr, end) ==
    IF end < 0
    THEN SubSeq(arr, 1, Max(Len(arr) + end, 0))
    ELSE SubSeq(arr, 1, Min(Len(arr), end))

\* Array.prototype.join(EOL) on an array of lines.
RECURSIVE joinLines(_)
joinLines(lines) ==
    IF lines = <<>> THEN <<>>
    ELSE IF Len(lines) = 1 THEN lines[1]
    ELSE lines[1] \o <<EOL>> \o joinLines(Tail(lines))

IsWhiteSpace(c) == c \in {" ", "\t", EOL}

RECURSIVE trimStart(_)
trimStart(s) ==
    IF s # <<>> /\ IsWhiteSpace(Head(s)) THEN trimStart(Tail(s)) ELSE s

RECURSIVE trimEnd(_)
trimEnd(s) ==
    IF s # <<>> /\ IsWhiteSpace(s[Len(s)])
    THEN trimEnd(SubSeq(s, 1, Len(s) - 1))
    ELSE s

\* String.prototype.trim()
trim(s) == trimEnd(trimStart(s))

(***************************************************************************)
(* Module-level functions.                                                 *)
(***************************************************************************)
\* An identity made of the parents and of the test name.
getBlockIdWithTest(block) ==
    IF block.parentsIsArray
    THEN join(block.parents, " ")
         \o (IF Truthy(block.test) THEN " " \o block.test ELSE "")
    ELSE null

\* An event or error value carries parents (an array) or does not.
getBlockId(block) ==
    IF block.parentsIsArray THEN join(block.parents, " ") ELSE null

\* A tracker constructed with the time of its creation as its start times.
createBlockTrackerStarted(event) ==
    LET id == getBlockId(event)
    IN  [id |-> id,
         name |-> id,
         type |-> event.type,
         test |-> event.test,
         beforeStartTime |-> now,
         afterStartTime |-> now]

\* A tracker that carries the name of the innermost parent as its id.
createBlockTrackerOfLastParent(event) ==
    LET last == event.parents[Len(event.parents)]
    IN  [id |-> last,
         name |-> last,
         type |-> event.type,
         test |-> event.test,
         beforeStartTime |-> NullTime,
         afterStartTime |-> NullTime]

\* createBlockTracker(event): the start times are null.
createBlockTracker(event) ==
    LET id == getBlockId(event)
    IN  [id |-> id,
         name |-> id,
         type |-> event.type,
         test |-> event.test,
         beforeStartTime |-> NullTime,
         afterStartTime |-> NullTime]

\* The lines of err.stack that reportError keeps.
stackLines(maxStack, err) ==
    LET stack == IF err.stack # <<>> THEN split(err.stack) ELSE <<>>
    IN  IF Len(stack) > maxStack THEN slice(stack, maxStack) ELSE stack

\* The label reportError puts in the header.
nameString(err) ==
    LET testName == IF Truthy(err.test) THEN " " \o err.test ELSE ""
        id == getBlockId(err)
    IN  IF Truthy(testName) /\ Truthy(id) THEN id \o " " \o testName
        ELSE IF Truthy(testName) THEN testName
        ELSE IF Truthy(id) THEN id
        ELSE "Unexpected Testing Error"

\* The two writes of reportError.
reportError(maxStack, err) ==
    << [kind |-> "errorHeader", text |-> nameString(err)],
       [kind |-> "errorStack",
        chars |-> trim(joinLines(stackLines(maxStack, err)))] >>

\* exitWithError(err) writing the summary line before it exits.
exitWithErrorAfterSummary(stack) ==
    (IF stack # <<>> THEN << [kind |-> "fatalStack", chars |-> stack] >>
     ELSE <<>>)
    \o << [kind |-> "summary", tests |-> testCount, errors |-> errorCount],
          [kind |-> "exiting"] >>

\* The writes of exitWithError(err); it then calls process.exit(1).
exitWithError(stack) ==
    (IF stack # <<>> THEN << [kind |-> "fatalStack", chars |-> stack] >>
     ELSE <<>>)
    \o << [kind |-> "exiting"] >>

maxErrorsNotice(maxErrors) == [kind |-> "maxErrorsNotice", max |-> maxErrors]

\* Infinity compared as if it were the number 0.
shouldBailOutIgnoringInfinity(count, maxErrors) == count >= maxErrors.n

\* The condition under which the error handler terminates the run.
shouldBailOut(count, maxErrors) == GreaterOrEqual(count, maxErrors)

(***************************************************************************)
(* The values the engine and the command line supply.                      *)
(***************************************************************************)
\* parents arrays of the events.  "a b" is one block whose name holds a
\* space; <<"a", "b">> is block b nested in block a.
Parents == { <<"a">>, <<"a", "b">>, <<"a b">> }

Types == {"before", "after", "test", "pendingTest", "describe"}

\* The engine announces the start of before, after and test blocks.
StartTypes == {"before", "after", "test"}

BlockEvent(p, t) ==
    [parentsIsArray |-> TRUE,
     parents |-> p,
     type |-> t,
     test |-> IF t \in {"test", "pendingTest"} THEN "t" ELSE null]

BlockStartEvents == { BlockEvent(p, t) : p \in Parents, t \in StartTypes }

BlockCompleteEvents == { BlockEvent(p, t) : p \in Parents, t \in Types }

\* Error values: with a three-line stack, a test and parents; with a
\* one-line stack only; with parents only.
ErrorEvents ==
    { [stack |-> <<"E", EOL, "x", EOL, "y">>, test |-> "t",
       parentsIsArray |-> TRUE, parents |-> <<"a">>],
      [stack |-> <<"E">>, test |-> null,
       parentsIsArray |-> FALSE, parents |-> <<>>],
      [stack |-> <<>>, test |-> null,
       parentsIsArray |-> TRUE, parents |-> <<"a", "b">>] }

NoError == [stack |-> <<>>, test |-> null,
            parentsIsArray |-> FALSE, parents |-> <<>>]

\* A maxStack that cuts the three-line stack, and the default of index.js.
MaxStackValues == {2, 5}

MaxErrorsValues == { Num(n) : n \in -1 .. MaxMaxErrors } \cup { Infinity }

Configs ==
    [maxErrors : MaxErrorsValues,
     maxStack : MaxStackValues,
     verbose : BOOLEAN,
     quiet : BOOLEAN]

(***************************************************************************)
(* main(): the state its closures share, after the test files are loaded   *)
(* and runner.run() was called.                                            *)
(***************************************************************************)
InitState ==
    /\ blockTrackers = <<>>
    /\ pendingBlocks = <<>>
    /\ testCount = 0
    /\ errorCount = 0
    /\ currentBlock = null
    /\ now = 1
    /\ output = <<>>
    /\ exited = FALSE
    /\ exitCode = 0
    /\ nEvents = 0
    /\ nErrorEvents = 0
    /\ nTestCompletes = 0
    /\ startedParents = {}
    /\ isNewCount = <<>>
    /\ lastErr = NoError
    /\ pendingEvents = <<>>
    /\ setups = <<>>
    /\ teardowns = <<>>
    /\ runStarted = TRUE
    /\ errors = <<>>
    /\ argv = Undefined
    /\ configFiles = <<>>
    /\ options = Undefined
    /\ paths = <<"function">>
    /\ loadIndex = 2
    /\ testFileLoadCount = 1

Init ==
    /\ cfg \in Configs
    /\ InitState

\* Date.now(): the values a call may return, none before an earlier one.
DateNow == { t \in now .. now + 1 : t <= MaxTime + 1 }

isBlockChange(ev) ==
    currentBlock = null \/ blockTrackers[currentBlock].id # getBlockId(ev)

\* setBlock(ev) constructing a tracker from every event it is given.
setBlockReplacing(ev) ==
    LET id == getBlockId(ev)
    IN  (id :> createBlockTracker(ev)) @@ blockTrackers

\* setBlock(ev) keeping no tracker but the one of the event.
setBlockForgetting(ev) ==
    LET id == getBlockId(ev)
    IN  IF id \notin DOMAIN blockTrackers
        THEN (id :> createBlockTracker(ev))
        ELSE blockTrackers

\* setBlock(ev): the registry after the call.
setBlock(ev) ==
    LET id == getBlockId(ev)
    IN  IF id \notin DOMAIN blockTrackers
        THEN blockTrackers @@ (id :> createBlockTracker(ev))
        ELSE blockTrackers

\* setBlock(ev): its return value.
setBlockIsNew(ev) == getBlockId(ev) \notin DOMAIN blockTrackers

\* process.exitCode = code: the status is set and the process goes on.
ExitCodeOnly(code) ==
    /\ exited' = exited
    /\ exitCode' = code

\* process.exit(code)
Exit(code) ==
    /\ exited' = TRUE
    /\ exitCode' = code

NoExit == UNCHANGED <<exited, exitCode>>

\* The notice written before the error block of the triggering error.
errorHandlerWritesNoticeFirst(err, bail) ==
    (IF bail THEN << maxErrorsNotice(cfg.maxErrors) >> ELSE <<>>)
    \o reportError(cfg.maxStack, err)
    \o (IF bail THEN exitWithError(<<>>) ELSE <<>>)

\* The writes of the error handler: the error block, then, on bail-out,
\* the notice and the writes of exitWithError().
errorHandlerWrites(err, bail) ==
    reportError(cfg.maxStack, err)
    \o (IF bail
        THEN << maxErrorsNotice(cfg.maxErrors) >> \o exitWithError(<<>>)
        ELSE <<>>)

\* runner.on(`error`)
OnError(err) ==
    /\ ~exited
    /\ nEvents < MaxEvents
    /\ errorCount' = errorCount + 1
    /\ LET bail == shouldBailOut(errorCount + 1, cfg.maxErrors)
       IN  /\ output' = output \o errorHandlerWrites(err, bail)
           /\ IF bail THEN Exit(1) ELSE NoExit
    /\ nEvents' = nEvents + 1
    /\ nErrorEvents' = nErrorEvents + 1
    /\ lastErr' = err
    /\ UNCHANGED <<cfg, blockTrackers, pendingBlocks, testCount, currentBlock,
                   now, nTestCompletes, startedParents, isNewCount,
                   pendingEvents>>
    /\ UNCHANGED hookVars
    /\ UNCHANGED optionVars
    /\ UNCHANGED loadVars

\* runner.on(`blockStart`)
OnBlockStart(ev) ==
    /\ ~exited
    /\ nEvents < MaxEvents
    /\ now' \in (IF ev.type \in {"before", "after"} THEN DateNow ELSE {now})
    /\ LET change == isBlockChange(ev)
           id == getBlockId(ev)
           trackers == IF change THEN setBlock(ev) ELSE blockTrackers
       IN  /\ blockTrackers' =
                 [trackers EXCEPT
                    ![id].beforeStartTime =
                        IF ev.type = "before" THEN now' ELSE @,
                    ![id].afterStartTime =
                        IF ev.type = "after" THEN now' ELSE @]
           /\ currentBlock' = IF change THEN id ELSE currentBlock
           /\ isNewCount' =
                 IF change /\ setBlockIsNew(ev)
                 THEN IF id \in DOMAIN isNewCount
                      THEN [isNewCount EXCEPT ![id] = @ + 1]
                      ELSE isNewCount @@ (id :> 1)
                 ELSE isNewCount
    /\ nEvents' = nEvents + 1
    /\ startedParents' = startedParents \cup {ev.parents}
    /\ UNCHANGED <<cfg, pendingBlocks, testCount, errorCount, output,
                   exited, exitCode, nErrorEvents, nTestCompletes, lastErr,
                   pendingEvents>>
    /\ UNCHANGED hookVars
    /\ UNCHANGED optionVars
    /\ UNCHANGED loadVars

\* Every type but before and after counted as a test.
countsAsTestByDefault(type) == type \notin {"before", "after"}

\* blockComplete: which event types count as a test that ran.
countsAsTest(type) == type = "test"

\* The duration line written whatever verbose is.
blockCompleteWritesAlways(ev, tracker, t) ==
    IF ev.type = "before"
    THEN << [kind |-> "beforeLine", text |-> tracker.name,
             ms |-> t - tracker.beforeStartTime] >>
    ELSE IF ev.type = "after"
    THEN << [kind |-> "afterLine", text |-> tracker.name,
             ms |-> t - tracker.afterStartTime] >>
    ELSE <<>>

\* The duration taken from the start times of the block that is current.
blockCompleteWritesOfCurrentBlock(ev, tracker, t) ==
    IF ev.type = "before" /\ cfg.verbose
    THEN << [kind |-> "beforeLine", text |-> tracker.name,
             ms |-> t - blockTrackers[currentBlock].beforeStartTime] >>
    ELSE IF ev.type = "after" /\ cfg.verbose
    THEN << [kind |-> "afterLine", text |-> tracker.name,
             ms |-> t - blockTrackers[currentBlock].afterStartTime] >>
    ELSE <<>>

\* blockComplete: the write of its switch statement, if any.
blockCompleteWrites(ev, tracker, t) ==
    IF ev.type = "before" /\ cfg.verbose
    THEN << [kind |-> "beforeLine", text |-> tracker.name,
             ms |-> t - tracker.beforeStartTime] >>
    ELSE IF ev.type = "after" /\ cfg.verbose
    THEN << [kind |-> "afterLine", text |-> tracker.name,
             ms |-> t - tracker.afterStartTime] >>
    ELSE <<>>

\* runner.on(`blockComplete`).  The engine completes only blocks it started.
OnBlockComplete(ev) ==
    /\ ~exited
    /\ nEvents < MaxEvents
    /\ ev.parents \in startedParents
    /\ now' \in (IF ev.type \in {"before", "after"} /\ cfg.verbose
                THEN DateNow ELSE {now})
    /\ LET tracker == blockTrackers[getBlockId(ev)]
       IN  /\ testCount' = IF countsAsTest(ev.type)
                           THEN testCount + 1 ELSE testCount
           /\ output' = output \o blockCompleteWrites(ev, tracker, now')
           /\ pendingBlocks' =
                 IF ev.type = "pendingTest"
                 THEN Append(pendingBlocks, tracker.name \o " " \o ev.test)
                 ELSE pendingBlocks
    /\ nEvents' = nEvents + 1
    /\ nTestCompletes' = IF ev.type = "test"
                         THEN nTestCompletes + 1 ELSE nTestCompletes
    /\ pendingEvents' = IF ev.type = "pendingTest"
                        THEN Append(pendingEvents, ev) ELSE pendingEvents
    /\ UNCHANGED <<cfg, blockTrackers, errorCount, currentBlock, exited,
                   exitCode, nErrorEvents, startedParents, isNewCount,
                   lastErr>>
    /\ UNCHANGED hookVars
    /\ UNCHANGED optionVars
    /\ UNCHANGED loadVars

\* The pending section without its closing write.
pendingSectionUnclosed ==
    IF ~cfg.quiet /\ Len(pendingBlocks) > 0
    THEN << [kind |-> "pendingHeader"] >>
         \o [i \in 1 .. Len(pendingBlocks) |->
                [kind |-> "pendingLine", text |-> pendingBlocks[i]]]
    ELSE <<>>

\* The pending section written whatever quiet is.
pendingSectionIgnoringQuiet ==
    IF Len(pendingBlocks) > 0
    THEN << [kind |-> "pendingHeader"] >>
         \o [i \in 1 .. Len(pendingBlocks) |->
                [kind |-> "pendingLine", text |-> pendingBlocks[i]]]
         \o << [kind |-> "pendingFooter"] >>
    ELSE <<>>

\* end: the pending section.
pendingSection ==
    IF ~cfg.quiet /\ Len(pendingBlocks) > 0
    THEN << [kind |-> "pendingHeader"] >>
         \o [i \in 1 .. Len(pendingBlocks) |->
                [kind |-> "pendingLine", text |-> pendingBlocks[i]]]
         \o << [kind |-> "pendingFooter"] >>
    ELSE <<>>

summaryLine == [kind |-> "summary", tests |-> testCount, errors |-> errorCount]

\* One error tolerated.
isPassOffByOne(count) == count <= 1

\* end: the process passes when this holds of errorCount.
isPass(count) == count = 0

\* runner.on(`end`)
OnEnd ==
    /\ ~exited
    /\ IF isPass(errorCount)
       THEN /\ output' = output \o pendingSection
                         \o << summaryLine, [kind |-> "PASS"] >>
            /\ Exit(0)
       ELSE /\ output' = output \o pendingSection
                         \o << summaryLine, [kind |-> "FAIL"] >>
            /\ Exit(1)
    /\ UNCHANGED <<cfg, blockTrackers, pendingBlocks, testCount, errorCount,
                   currentBlock, now, nEvents, nErrorEvents, nTestCompletes,
                   startedParents, isNewCount, lastErr, pendingEvents>>
    /\ UNCHANGED hookVars
    /\ UNCHANGED optionVars
    /\ UNCHANGED loadVars

Next ==
    \/ \E err \in ErrorEvents : OnError(err)
    \/ \E ev \in BlockStartEvents : OnBlockStart(ev)
    \/ \E ev \in BlockCompleteEvents : OnBlockComplete(ev)
    \/ OnEnd

Spec == Init /\ [][Next]_vars

(***************************************************************************)
(* What an observer of the process sees.                                   *)
(***************************************************************************)
Indices(kind) == { i \in DOMAIN output : output[i].kind = kind }

HasKind(kind) == Indices(kind) # {}

\* The process exited from the end handler.
Ended == exited /\ HasKind("summary")

\* The process exited from the error handler.
BailedOut == exited /\ HasKind("maxErrorsNotice")

FiniteMaxErrors == ~cfg.maxErrors.inf /\ cfg.maxErrors.n >= 0

(***************************************************************************)
(* C1: the bail-out threshold is strict.  For a finite maxErrors = m >= 0  *)
(* the run has bailed out exactly when more than m error events were      *)
(* handled; so the first m never terminate it and the (m+1)-th does.       *)
(***************************************************************************)
C1_BailOutIsStrict ==
    FiniteMaxErrors =>
        /\ BailedOut <=> nErrorEvents > cfg.maxErrors.n
        /\ nErrorEvents <= cfg.maxErrors.n + 1

(***************************************************************************)
(* C2: when the end event is handled the process exits with status 0 iff   *)
(* no error event was handled, with status 1 otherwise; the banner is PASS *)
(* exactly with status 0 and FAIL exactly with status 1.                   *)
(***************************************************************************)
C2_EndExitStatus ==
    Ended =>
        /\ exitCode = 0 <=> nErrorEvents = 0
        /\ exitCode = 1 <=> nErrorEvents > 0
        /\ HasKind("PASS") <=> exitCode = 0
        /\ HasKind("FAIL") <=> exitCode = 1

C2_Witness == Ended /\ nErrorEvents >= 1 /\ HasKind("FAIL")

(***************************************************************************)
(* C3: with maxErrors = 0 the first error event terminates the run with    *)
(* status 1; no handler of a later blockStart or blockComplete can run, so *)
(* counts, trackers, pending buffer and output stay as the error left them.*)
(***************************************************************************)
BlockEventHandled ==
    \/ \E ev \in BlockStartEvents : OnBlockStart(ev)
    \/ \E ev \in BlockCompleteEvents : OnBlockComplete(ev)

C3_FirstErrorTerminates ==
    (cfg.maxErrors = Num(0) /\ nErrorEvents >= 1) =>
        /\ exited
        /\ exitCode = 1
        /\ nErrorEvents = 1
        /\ errorCount = 1
        /\ output[Len(output)].kind = "exiting"
        /\ ~ENABLED BlockEventHandled

C3_Witness ==
    /\ cfg.maxErrors = Num(0)
    /\ nErrorEvents = 1
    /\ nEvents = 3
    /\ DOMAIN blockTrackers # {}

(***************************************************************************)
(* C4: with maxErrors = Infinity no error event triggers bail-out: each is *)
(* counted and reported, the run lasts until the end event, the summary    *)
(* then reports the number of error events handled, and the status is 1    *)
(* when that number is at least 1.                                         *)
(***************************************************************************)
C4_UnboundedNeverBails ==
    cfg.maxErrors = Infinity =>
        /\ ~HasKind("maxErrorsNotice")
        /\ errorCount = nErrorEvents
        /\ Cardinality(Indices("errorHeader")) = nErrorEvents
        /\ exited => Ended
        /\ Ended =>
              /\ \A i \in Indices("summary") : output[i].errors = nErrorEvents
              /\ nErrorEvents >= 1 => exitCode = 1

C4_Witness == cfg.maxErrors = Infinity /\ Ended /\ nErrorEvents >= 2

(***************************************************************************)
(* C5: maxErrors = -1 behaves as Infinity: no bail-out, whatever the       *)
(* events; the process exits from the end handler only, with the counts    *)
(* and the status of the run with Infinity.                                *)
(***************************************************************************)
C5_MinusOneIsInfinity ==
    cfg.maxErrors = Num(-1) =>
        /\ ~HasKind("maxErrorsNotice")
        /\ exited => Ended
        /\ \A n \in 1 .. nErrorEvents :
              shouldBailOut(n, cfg.maxErrors) = shouldBailOut(n, Infinity)

(***************************************************************************)
(* C6: in the summary line N is the number of blockComplete events of type *)
(* test handled and M the number of error events handled; blockComplete    *)
(* events of the other types never increase N.                             *)
(***************************************************************************)
C6_SummaryCounts ==
    /\ testCount = nTestCompletes
    /\ Ended =>
          \A i \in Indices("summary") :
              /\ output[i].tests = nTestCompletes
              /\ output[i].errors = nErrorEvents

C6_Witness ==
    /\ Ended
    /\ nTestCompletes = 1
    /\ nEvents = 3
    /\ Len(pendingBlocks) = 1

(***************************************************************************)
(* C8: after any prefix of a well-formed event stream the registry holds   *)
(* exactly one entry per distinct parents sequence seen in a blockStart,   *)
(* and setBlock returned true exactly once per identity.                   *)
(***************************************************************************)
C8_OneTrackerPerParents ==
    /\ Cardinality(DOMAIN blockTrackers) = Cardinality(startedParents)
    /\ DOMAIN isNewCount = DOMAIN blockTrackers
    /\ \A id \in DOMAIN isNewCount : isNewCount[id] = 1

(***************************************************************************)
(* C9: block identity is injective on parents sequences: two events get    *)
(* the same identity, and so the same tracker, iff their parents are       *)
(* element-wise equal, also when a block name contains the separator.      *)
(***************************************************************************)
IdOf(p) == getBlockId([parentsIsArray |-> TRUE, parents |-> p])

C9_IdentityInjective ==
    \A p, q \in startedParents : (IdOf(p) = IdOf(q)) <=> (p = q)

(***************************************************************************)
(* C10: when bail-out fires, the error block of every error handled so far *)
(* (the triggering one included) has been written, then the notice         *)
(* "maxErrors: <n> exceeded" is written, then the process exits with a     *)
(* non-zero status; the output ends with what was written before the exit. *)
(***************************************************************************)
C10_BailOutOrder ==
    BailedOut =>
        \E n \in Indices("maxErrorsNotice") :
            /\ Indices("maxErrorsNotice") = {n}
            /\ output[n].max = cfg.maxErrors
            /\ Cardinality(Indices("errorHeader")) = nErrorEvents
            /\ Cardinality(Indices("errorStack")) = nErrorEvents
            /\ \A i \in Indices("errorHeader") \cup Indices("errorStack") :
                  i < n
            /\ output[n - 1].kind = "errorStack"
            /\ n + 1 = Len(output)
            /\ output[n + 1].kind = "exiting"
            /\ exitCode # 0

C10_Witness == BailedOut /\ nErrorEvents = 2 /\ nEvents = 3

(***************************************************************************)
(* reportError on its own: one error value, with any stack of at most      *)
(* MaxStackLen characters, handled under any maxStack of -1 .. MaxStack.   *)
(***************************************************************************)
StackChars == {"E", "x", " ", EOL}

Stacks == UNION { [1 .. n -> StackChars] : n \in 0 .. MaxStackLen }

StackConfigs ==
    [maxErrors : {Infinity},
     maxStack : -1 .. MaxStack,
     verbose : {FALSE},
     quiet : {FALSE}]

StackInit ==
    /\ cfg \in StackConfigs
    /\ InitState

StackNext ==
    /\ nEvents = 0
    /\ \E s \in Stacks : OnError([NoError EXCEPT !.stack = s])

StackSpec == StackInit /\ [][StackNext]_vars

\* The lines of the stack of the error handled, as String.split gives them.
OriginalLines == IF lastErr.stack # <<>> THEN split(lastErr.stack) ELSE <<>>

\* The lines of the stack as written.
RenderedLines ==
    LET w == output[2].chars
    IN  IF w = <<>> THEN <<>> ELSE split(w)

\* The first min(N, K) lines of the stack.
KeptLines ==
    SubSeq(OriginalLines, 1, Min(Len(OriginalLines), cfg.maxStack))

\* No whitespace at the start of the first line or at the end of the last.
CleanEdges(lines) ==
    /\ lines # <<>>
    /\ lines[1] # <<>>
    /\ lines[Len(lines)] # <<>>
    /\ ~IsWhiteSpace(lines[1][1])
    /\ ~IsWhiteSpace(lines[Len(lines)][Len(lines[Len(lines)])])

(***************************************************************************)
(* C7, as stated: for maxStack = K >= 0 the rendered stack consists of     *)
(* exactly min(N, K) lines, the first min(N, K) lines of the original      *)
(* stack in their order.                                                   *)
(***************************************************************************)
C7_ExactlyMinLines ==
    (nErrorEvents = 1 /\ cfg.maxStack >= 0) => RenderedLines = KeptLines

(***************************************************************************)
(* C7, amended: for maxStack = K >= 0 the rendered stack is the first      *)
(* min(N, K) lines of the original stack, joined in their order, with the  *)
(* whitespace at the start and at the end of that text removed.  It has at *)
(* most min(N, K) lines, and exactly those lines when the first kept line  *)
(* does not start and the last kept line does not end with whitespace.     *)
(***************************************************************************)
C7_TrimmedFirstLines ==
    (nErrorEvents = 1 /\ cfg.maxStack >= 0) =>
        /\ Len(RenderedLines) <= Min(Len(OriginalLines), cfg.maxStack)
        /\ joinLines(RenderedLines) = trim(joinLines(KeptLines))
        /\ CleanEdges(KeptLines) => RenderedLines = KeptLines
        /\ KeptLines = <<>> => RenderedLines = <<>>

C7_Witness ==
    /\ nErrorEvents = 1
    /\ Len(OriginalLines) > cfg.maxStack
    /\ cfg.maxStack = 2
    /\ CleanEdges(KeptLines)
    /\ RenderedLines = KeptLines

(***************************************************************************)
(* The setup and teardown hooks.  main() of index.js waits for the setup   *)
(* hooks before it calls t.run(), and calls the teardown hooks in its end  *)
(* handler.  The wrapper that turns a hook(done) function into a promise   *)
(* with a timeout is not part of the sources: it is modelled from the      *)
(* specification (section 4.4).                                            *)
(***************************************************************************)
MaxHooks == 2           \* setup hooks, and teardown hooks, discovered

\* What a hook function does once invoked: it calls done(), calls
\* done(err), throws before it returns, or never calls done.
HookBehaviours == {"done", "doneError", "throw", "never"}

HookError(c) == [stack |-> <<c>>, test |-> null,
                 parentsIsArray |-> FALSE, parents |-> <<>>]

\* The values hooks pass to done(err) or throw.
HookErrors == { HookError("G"), HookError("H") }

\* The error of a hook whose timer fired.
TimeoutError == HookError("T")

\* A hook that was not invoked yet.
NewHook == [status |-> "pending", will |-> null, cause |-> NoError,
            arg |-> NoError, lateDone |-> FALSE]

HookLists == { [i \in 1 .. n |-> NewHook] : n \in 0 .. MaxHooks }

\* A hook whose first signal has been processed.
Settled(h) == h.status \in {"resolved", "rejected"}

\* The outcome is decided by a done() that carries an error only.
hookOutcomeErrorOnly(signal, arg) ==
    IF signal = "doneError"
    THEN [status |-> "rejected", cause |-> arg]
    ELSE [status |-> "resolved", cause |-> NoError]

\* The outcome the first signal of a hook decides.
hookOutcome(signal, arg) ==
    IF signal = "done"
    THEN [status |-> "resolved", cause |-> NoError]
    ELSE IF signal = "timeout"
    THEN [status |-> "rejected", cause |-> TimeoutError]
    ELSE [status |-> "rejected", cause |-> arg]

\* The hook after its first signal; arg keeps what the hook passed to
\* done or threw.
settle(h, signal, arg) ==
    LET o == hookOutcome(signal, arg)
    IN  [h EXCEPT !.status = o.status, !.cause = o.cause,
                  !.arg = IF signal \in {"doneError", "throw"}
                          THEN arg ELSE NoError]

\* The hook after the call hook(done): a throw settles it at once,
\* otherwise its timer is armed and it waits for done.
invoke(h, b, arg) ==
    IF b = "throw"
    THEN settle([h EXCEPT !.will = b], "throw", arg)
    ELSE [h EXCEPT !.status = "running", !.will = b]

\* A done() after the outcome was decided settles the hook again.
lateDoneSettlesAgain(h) ==
    [h EXCEPT !.lateDone = TRUE, !.status = "resolved", !.cause = NoError]

\* A done() or done(err) after the outcome was decided: ignored.
lateDone(h) == [h EXCEPT !.lateDone = TRUE]

\* Promise.all(hooks) is fulfilled by the first hook that is.
anyResolved(hooks) ==
    Len(hooks) = 0 \/ \E i \in 1 .. Len(hooks) : hooks[i].status = "resolved"

\* Promise.all(hooks) is fulfilled.
allResolved(hooks) ==
    \A i \in 1 .. Len(hooks) : hooks[i].status = "resolved"

\* Promise.all(hooks) is rejected.
anyRejected(hooks) ==
    \E i \in 1 .. Len(hooks) : hooks[i].status = "rejected"

\* The reason Promise.all(hooks) is rejected with: that of the hook that
\* was rejected first.
rejection(hooks) ==
    LET i == CHOOSE k \in 1 .. Len(hooks) :
                 /\ hooks[k].status = "rejected"
                 /\ \A j \in 1 .. k - 1 : hooks[j].status # "rejected"
    IN  hooks[i].cause

\* reportErrors(maxStack, [err])
reportErrors(maxStack, errs) ==
    IF Len(errs) = 0 THEN <<>> ELSE reportError(maxStack, errs[1])

\* errors.length === 0 ? PASS : FAIL
passFail(n) == IF n = 0 THEN [kind |-> "PASS"] ELSE [kind |-> "FAIL"]

\* process.exit(0), whatever was captured.
exitStatusZero(n) == 0

\* process.exit(errors.length > 0 ? 1 : 0)
exitStatus(n) == IF n > 0 THEN 1 ELSE 0

\* The status of the run, whatever the teardown did.
tearDownFailureStatusOfRun(n) == exitStatus(n)

\* The argument of process.exit() after a teardown failure.
tearDownFailureStatus(n) == 1

\* The end event has been handled.
ended == HasKind("summary")

HookConfigs ==
    [maxErrors : { Num(1), Num(MaxMaxErrors), Infinity },
     maxStack : {5},
     verbose : {FALSE},
     quiet : {FALSE}]

\* The error the engine reports in this specification.
RunErrors == { e \in ErrorEvents : e.test # null }

\* main() up to Promise.all(setups): nothing has run yet.
HookInit ==
    /\ cfg \in HookConfigs
    /\ blockTrackers = <<>>
    /\ pendingBlocks = <<>>
    /\ testCount = 0
    /\ errorCount = 0
    /\ currentBlock = null
    /\ now = 1
    /\ output = <<>>
    /\ exited = FALSE
    /\ exitCode = 0
    /\ nEvents = 0
    /\ nErrorEvents = 0
    /\ nTestCompletes = 0
    /\ startedParents = {}
    /\ isNewCount = <<>>
    /\ lastErr = NoError
    /\ pendingEvents = <<>>
    /\ setups \in HookLists
    /\ teardowns \in HookLists
    /\ runStarted = FALSE
    /\ errors = <<>>
    /\ argv = Undefined
    /\ configFiles = <<>>
    /\ options = Undefined
    /\ paths = <<>>
    /\ loadIndex = 0
    /\ testFileLoadCount = 0

\* What no hook action changes.
runVars == <<cfg, blockTrackers, pendingBlocks, testCount, errorCount,
             currentBlock, now, nEvents, nErrorEvents, nTestCompletes,
             startedParents, isNewCount, lastErr, pendingEvents,
             argv, configFiles, options,
             paths, loadIndex, testFileLoadCount>>

\* The first setup hook not invoked, once all before it have settled.
isNextSetupAfterSettled(i) ==
    /\ setups[i].status = "pending"
    /\ \A j \in 1 .. i - 1 : Settled(setups[j])

\* The setup hook to invoke next: the first one not invoked, once all
\* before it have succeeded.
isNextSetup(i) ==
    /\ setups[i].status = "pending"
    /\ \A j \in 1 .. i - 1 : setups[j].status = "resolved"

\* A setup hook is called.
InvokeSetup(i, b, e) ==
    /\ ~exited
    /\ ~runStarted
    /\ isNextSetup(i)
    /\ setups' = [setups EXCEPT ![i] = invoke(@, b, e)]
    /\ UNCHANGED <<teardowns, runStarted, errors, output, exited, exitCode>>
    /\ UNCHANGED runVars

\* A running hook without a timer: only its own done settles it.
maySignalDoneOnly(h, signal) ==
    /\ h.status = "running"
    /\ signal = h.will

\* The first signal of a running hook: the done it makes, or its timer.
maySignal(h, signal) ==
    /\ h.status = "running"
    /\ signal = "timeout" \/ signal = h.will

\* done(), done(err) or the timer of a running setup hook.
SetupSignal(i, signal, e) ==
    /\ ~exited
    /\ maySignal(setups[i], signal)
    /\ setups' = [setups EXCEPT ![i] = settle(@, signal, e)]
    /\ UNCHANGED <<teardowns, runStarted, errors, output, exited, exitCode>>
    /\ UNCHANGED runVars

\* A hook that may call done after its outcome was decided.
mayCallDoneLate(h) ==
    /\ Settled(h)
    /\ h.will # "never"
    /\ ~h.lateDone

\* done called by a setup hook whose outcome was decided before.
SetupLateDone(i) ==
    /\ ~exited
    /\ mayCallDoneLate(setups[i])
    /\ setups' = [setups EXCEPT ![i] = lateDone(@)]
    /\ UNCHANGED <<teardowns, runStarted, errors, output, exited, exitCode>>
    /\ UNCHANGED runVars

\* Promise.all(setups).then
SetupComplete ==
    /\ ~exited
    /\ ~runStarted
    /\ allResolved(setups)
    /\ output' = output \o << [kind |-> "setupComplete"] >>
    /\ runStarted' = TRUE
    /\ UNCHANGED <<setups, teardowns, errors, exited, exitCode>>
    /\ UNCHANGED runVars

\* Promise.all(setups).then().catch
SetupFailure ==
    /\ ~exited
    /\ anyRejected(setups)
    /\ output' = output \o << [kind |-> "setupFailure"] >>
                 \o reportErrors(cfg.maxStack, << rejection(setups) >>)
                 \o << [kind |-> "blank"] >>
    /\ Exit(1)
    /\ UNCHANGED <<setups, teardowns, runStarted, errors>>
    /\ UNCHANGED runVars

\* runner.on(`error`) of createTestRunner(), then t.on(`error`) of main().
OnRunnerError(err) ==
    /\ ~exited
    /\ runStarted
    /\ ~ended
    /\ nEvents < MaxEvents
    /\ errorCount' = errorCount + 1
    /\ LET bail == shouldBailOut(errorCount + 1, cfg.maxErrors)
       IN  /\ output' = output \o reportError(cfg.maxStack, err)
                        \o (IF bail
                            THEN << maxErrorsNotice(cfg.maxErrors) >>
                            ELSE <<>>)
           /\ IF bail THEN Exit(1) ELSE NoExit
           /\ errors' = IF bail THEN errors ELSE Append(errors, err)
    /\ nEvents' = nEvents + 1
    /\ nErrorEvents' = nErrorEvents + 1
    /\ lastErr' = err
    /\ UNCHANGED <<cfg, blockTrackers, pendingBlocks, testCount, currentBlock,
                   now, nTestCompletes, startedParents, isNewCount,
                   pendingEvents, setups, teardowns, runStarted>>
    /\ UNCHANGED optionVars
    /\ UNCHANGED loadVars

\* runner.on(`end`) of createTestRunner(), then t.on(`end`) of main(): the
\* report, then every teardown hook is called, or, without teardown
\* hooks, the banner is written and the process exits.
OnRunnerEnd(bs, es) ==
    /\ ~exited
    /\ runStarted
    /\ ~ended
    /\ IF Len(teardowns) > 0
       THEN /\ output' = output \o pendingSection \o << summaryLine >>
            /\ teardowns' = [i \in 1 .. Len(teardowns) |->
                                invoke(teardowns[i], bs[i], es[i])]
            /\ NoExit
       ELSE /\ output' = output \o pendingSection
                         \o << summaryLine, passFail(Len(errors)) >>
            /\ Exit(exitStatus(Len(errors)))
            /\ UNCHANGED teardowns
    /\ UNCHANGED <<setups, runStarted, errors>>
    /\ UNCHANGED runVars

\* done(), done(err) or the timer of a running teardown hook, while
\* Promise.all(promises) is pending.
TeardownSignal(i, signal, e) ==
    /\ ~exited
    /\ ~anyRejected(teardowns)
    /\ maySignal(teardowns[i], signal)
    /\ teardowns' = [teardowns EXCEPT ![i] = settle(@, signal, e)]
    /\ UNCHANGED <<setups, runStarted, errors, output, exited, exitCode>>
    /\ UNCHANGED runVars

\* done called by a teardown hook whose outcome was decided before.
TeardownLateDone(i) ==
    /\ ~exited
    /\ mayCallDoneLate(teardowns[i])
    /\ teardowns' = [teardowns EXCEPT ![i] = lateDone(@)]
    /\ UNCHANGED <<setups, runStarted, errors, output, exited, exitCode>>
    /\ UNCHANGED runVars

\* Promise.all(promises).then
TeardownComplete ==
    /\ ~exited
    /\ Len(teardowns) > 0
    /\ allResolved(teardowns)
    /\ output' = output \o << [kind |-> "tearDownComplete"],
                              passFail(Len(errors)) >>
    /\ Exit(exitStatus(Len(errors)))
    /\ UNCHANGED <<setups, teardowns, runStarted, errors>>
    /\ UNCHANGED runVars

\* Promise.all(promises).then().catch
TeardownFailure ==
    /\ ~exited
    /\ anyRejected(teardowns)
    /\ output' = output \o << [kind |-> "tearDownFailure"] >>
                 \o reportErrors(cfg.maxStack, << rejection(teardowns) >>)
                 \o << [kind |-> "blank"] >>
    /\ Exit(tearDownFailureStatus(Len(errors)))
    /\ UNCHANGED <<setups, teardowns, runStarted, errors>>
    /\ UNCHANGED runVars

Signals == {"done", "doneError", "timeout"}

HookNext ==
    \/ \E i \in DOMAIN setups, b \in HookBehaviours, e \in HookErrors :
          InvokeSetup(i, b, e)
    \/ \E i \in DOMAIN setups, g \in Signals, e \in HookErrors :
          SetupSignal(i, g, e)
    \/ \E i \in DOMAIN setups : SetupLateDone(i)
    \/ SetupComplete
    \/ SetupFailure
    \/ \E err \in RunErrors : OnRunnerError(err)
    \/ \E bs \in [DOMAIN teardowns -> HookBehaviours],
          es \in [DOMAIN teardowns -> HookErrors] : OnRunnerEnd(bs, es)
    \/ \E i \in DOMAIN teardowns, g \in Signals, e \in HookErrors :
          TeardownSignal(i, g, e)
    \/ \E i \in DOMAIN teardowns : TeardownLateDone(i)
    \/ TeardownComplete
    \/ TeardownFailure

HookSpec == HookInit /\ [][HookNext]_vars

\* The hooks that were called.
Invoked(hooks) == { i \in DOMAIN hooks : hooks[i].status # "pending" }

\* The hooks that are in progress.
Running(hooks) == { i \in DOMAIN hooks : hooks[i].status = "running" }

\* The position of the only write of this kind, 0 when there is none.
IndexOf(kind) == IF HasKind(kind) THEN CHOOSE i \in Indices(kind) : TRUE ELSE 0

\* The PASS or FAIL banner has been written.
HasBanner == HasKind("PASS") \/ HasKind("FAIL")

(***************************************************************************)
(* C11: on bail-out no teardown hook is started.  Once the maxErrors       *)
(* notice has been written the process has exited with status 1 and not    *)
(* one teardown hook has been called.                                      *)
(***************************************************************************)
C11_BailOutSkipsTeardown ==
    HasKind("maxErrorsNotice") =>
        /\ exited
        /\ exitCode = 1
        /\ Invoked(teardowns) = {}

C11_Witness ==
    /\ HasKind("maxErrorsNotice")
    /\ exited
    /\ Len(teardowns) > 0
    /\ Len(setups) > 0

(***************************************************************************)
(* C12: t.run() is called only after every setup hook has succeeded; once  *)
(* a setup hook has failed the engine run is not started, and no engine    *)
(* event is handled before the run was started.                            *)
(***************************************************************************)
C12_RunAfterSetups ==
    /\ runStarted => \A i \in DOMAIN setups : setups[i].status = "resolved"
    /\ (\E i \in DOMAIN setups : setups[i].status = "rejected") => ~runStarted
    /\ (nEvents > 0 \/ ended) => runStarted

C12_Witness ==
    /\ runStarted
    /\ Len(setups) > 1
    /\ nEvents > 0

(***************************************************************************)
(* C13: after the first setup hook failure no later setup hook is called,  *)
(* no teardown hook is called, the run is not started, the catch handler   *)
(* is what runs next, and once the process has exited its status is 1 and  *)
(* the output is the failure header, the error block of the cause and a    *)
(* blank line.                                                             *)
(***************************************************************************)
C13_SetupFailureStops ==
    \A i \in DOMAIN setups :
        setups[i].status = "rejected" =>
            /\ \A j \in DOMAIN setups : j > i => setups[j].status = "pending"
            /\ Invoked(teardowns) = {}
            /\ ~runStarted
            /\ ~exited => ENABLED SetupFailure
            /\ exited =>
                  /\ exitCode = 1
                  /\ output = << [kind |-> "setupFailure"] >>
                              \o reportError(cfg.maxStack, setups[i].cause)
                              \o << [kind |-> "blank"] >>

C13_Witness ==
    /\ Len(setups) > 1
    /\ Len(teardowns) > 0
    /\ setups[1].status = "rejected"
    /\ exited

(***************************************************************************)
(* C14: a teardown hook is called only once the end event was handled and  *)
(* the summary line written; with teardown hooks, the banner is written    *)
(* and the process exits from the end of the run only after every          *)
(* teardown hook has succeeded, the banner coming after the summary; and   *)
(* then the exit status is 0 exactly when no error event was captured.     *)
(***************************************************************************)
C14_TeardownAfterEnd ==
    /\ Invoked(teardowns) # {} => ended
    /\ (HasBanner /\ Len(teardowns) > 0) =>
          /\ \A i \in DOMAIN teardowns : teardowns[i].status = "resolved"
          /\ HasKind("tearDownComplete")
          /\ IndexOf("summary") < IndexOf("tearDownComplete")
    /\ (exited /\ ended /\ ~HasKind("tearDownFailure")) =>
          /\ \A i \in DOMAIN teardowns : teardowns[i].status = "resolved"
          /\ HasBanner
          /\ exitCode = 0 <=> nErrorEvents = 0
          /\ HasKind("PASS") <=> nErrorEvents = 0

C14_Witness ==
    /\ exited
    /\ HasKind("tearDownComplete")
    /\ Len(teardowns) > 1
    /\ nErrorEvents > 0
    /\ exitCode = 1

\* The writes after the summary line.
AfterSummary == SubSeq(output, IndexOf("summary") + 1, Len(output))

\* The process exited after a teardown hook failed.
TeardownFailed ==
    exited /\ \E i \in DOMAIN teardowns : teardowns[i].status = "rejected"

InvokedInTurn(hooks) ==
    \A i \in DOMAIN hooks :
        (i > 1 /\ hooks[i].status # "pending") => Settled(hooks[i - 1])

(***************************************************************************)
(* C16: hooks run strictly one after another.  At most one hook, setup or  *)
(* teardown, is in progress, and in each list a hook is called only after  *)
(* the hook before it has settled.                                         *)
(***************************************************************************)
C16_HooksSequential ==
    /\ Cardinality(Running(setups)) + Cardinality(Running(teardowns)) <= 1
    /\ InvokedInTurn(setups)
    /\ InvokedInTurn(teardowns)

\* The outcome of a hook of this list that had settled is the same after
\* the step.
OutcomeKept(hooks, hooksAfter) ==
    \A i \in DOMAIN hooks :
        Settled(hooks[i]) =>
            /\ hooksAfter[i].status = hooks[i].status
            /\ hooksAfter[i].cause = hooks[i].cause

\* A hook of this list calls done after its outcome was decided.
LateDoneStep(hooks, hooksAfter) ==
    \E i \in DOMAIN hooks : ~hooks[i].lateDone /\ hooksAfter[i].lateDone

\* The hook with its history flag removed.
Outcome(h) == [status |-> h.status, will |-> h.will, cause |-> h.cause]

\* The state of the run but for the history of late done calls.
RunState(s, t) ==
    << [i \in DOMAIN s |-> Outcome(s[i])], [i \in DOMAIN t |-> Outcome(t[i])],
       runStarted, errors, errorCount, testCount, output, exited, exitCode >>

(***************************************************************************)
(* C17: a hook settles exactly once.  No step changes the outcome of a     *)
(* hook that has settled, and a step in which done is called after the     *)
(* outcome was decided (after the timeout, or a second time) leaves the    *)
(* state of the run as it was: outcomes, errors, counters, output, exit.   *)
(***************************************************************************)
C17_SettlesOnce ==
    [][ /\ OutcomeKept(setups, setups')
        /\ OutcomeKept(teardowns, teardowns')
        /\ (LateDoneStep(setups, setups') \/ LateDoneStep(teardowns, teardowns'))
              => RunState(setups, teardowns) = RunState(setups, teardowns)'
      ]_vars

C17_Witness ==
    /\ ~exited
    /\ \E i \in DOMAIN teardowns :
          /\ teardowns[i].lateDone
          /\ teardowns[i].cause = TimeoutError
          /\ teardowns[i].will = "done"
    /\ \E i \in DOMAIN setups :
          /\ setups[i].lateDone
          /\ setups[i].status = "resolved"

\* The timer of a running setup hook fires.
SetupTimeout ==
    \E i \in DOMAIN setups, e \in HookErrors : SetupSignal(i, "timeout", e)

\* Timers that are due fire and the callbacks of settled promises run.
HookFairSpec ==
    /\ HookInit
    /\ [][HookNext]_vars
    /\ WF_vars(SetupTimeout)
    /\ WF_vars(SetupFailure)

\* Setup hook i is in progress and will never call done.
SilentSetup(i) ==
    /\ i \in DOMAIN setups
    /\ setups[i].status = "running"
    /\ setups[i].will = "never"

\* The process exited with status 1 on the timeout of setup hook i, the
\* engine never run.
TimedOutSetupExit(i) ==
    /\ i \in DOMAIN setups
    /\ setups[i].status = "rejected"
    /\ setups[i].cause = TimeoutError
    /\ exited
    /\ exitCode = 1
    /\ ~runStarted
    /\ nEvents = 0
    /\ ~ended

(***************************************************************************)
(* C18: a setup hook that never calls done does not block the run.  From   *)
(* any state in which such a hook is in progress the run leads to its      *)
(* timeout, a failure with the timeout error, and the exit of the process  *)
(* with status 1, the engine run never started.                            *)
(***************************************************************************)
C18_SilentSetupTimesOut ==
    \A i \in 1 .. MaxHooks : SilentSetup(i) ~> TimedOutSetupExit(i)

C18_Witness ==
    \E i \in DOMAIN setups : setups[i].will = "never" /\ TimedOutSetupExit(i)

\* The hook settled on its own signal, not on its timer.
SettledBySignal(h) == Settled(h) /\ h.cause # TimeoutError

\* The outcome of a hook that settled on its own signal is the one its
\* signal stands for.
ContractKept(h) ==
    SettledBySignal(h) =>
        /\ h.will = "done" => h.status = "resolved" /\ h.cause = NoError
        /\ h.will \in {"doneError", "throw"} =>
              /\ h.status = "rejected"
              /\ h.arg \in HookErrors
              /\ h.cause = h.arg

(***************************************************************************)
(* C19: the completion contract of a hook.  done() before the timeout      *)
(* gives success, done(err) before the timeout gives failure with err as   *)
(* the cause, and a hook that throws is never left in progress and gets    *)
(* the outcome that done with the thrown value gives.                      *)
(***************************************************************************)
C19_CompletionContract ==
    /\ \A i \in DOMAIN setups : ContractKept(setups[i])
    /\ \A i \in DOMAIN teardowns : ContractKept(teardowns[i])
    /\ \A i \in DOMAIN setups : setups[i].will = "throw" => Settled(setups[i])
    /\ \A i \in DOMAIN teardowns :
          teardowns[i].will = "throw" => Settled(teardowns[i])
    /\ \A e \in HookErrors : hookOutcome("throw", e) = hookOutcome("doneError", e)

C19_Witness ==
    /\ \E i \in DOMAIN setups :
          setups[i].will = "done" /\ setups[i].status = "resolved"
    /\ \E i, j \in DOMAIN teardowns :
          /\ teardowns[i].will = "done"
          /\ teardowns[i].status = "resolved"
          /\ teardowns[j].will \in {"doneError", "throw"}
          /\ teardowns[j].cause = HookError("H")

(***************************************************************************)
(* Pending tests: the run of main() in which the engine reports pending    *)
(* tests of two names in the blocks it started.                            *)
(***************************************************************************)
PendingTestNames == {"t", "u"}

PendingTestEvents ==
    { [BlockEvent(p, "pendingTest") EXCEPT !.test = n] :
          p \in Parents, n \in PendingTestNames }

PendingStartEvents == { BlockEvent(p, "test") : p \in Parents }

PendingNext ==
    \/ \E err \in RunErrors : OnError(err)
    \/ \E ev \in PendingStartEvents : OnBlockStart(ev)
    \/ \E ev \in PendingTestEvents : OnBlockComplete(ev)
    \/ OnEnd

PendingSpec == Init /\ [][PendingNext]_vars

\* The text of the pending line of a pendingTest event.
PendingText(ev) == join(ev.parents, " ") \o " " \o ev.test

\* The pending lines written, in order.
WrittenPending == SelectSeq(output, LAMBDA w : w.kind = "pendingLine")

(***************************************************************************)
(* C20: every pendingTest event buffers one pending line, in the order of  *)
(* the events; the buffered lines are written once, in that order, by the  *)
(* end handler, between one header and one footer and before the summary;  *)
(* nothing of the section is written before the end event, on bail-out,    *)
(* when quiet is set or when no pendingTest event occurred.                *)
(***************************************************************************)
C20_PendingBuffer ==
    /\ Len(pendingBlocks) = Len(pendingEvents)
    /\ \A i \in DOMAIN pendingBlocks :
          pendingBlocks[i] = PendingText(pendingEvents[i])
    /\ IF Ended /\ ~cfg.quiet /\ Len(pendingEvents) > 0
       THEN /\ Len(WrittenPending) = Len(pendingBlocks)
            /\ \A i \in DOMAIN WrittenPending :
                  WrittenPending[i].text = pendingBlocks[i]
            /\ Cardinality(Indices("pendingHeader")) = 1
            /\ Cardinality(Indices("pendingFooter")) = 1
            /\ \A i \in Indices("pendingLine") :
                  /\ IndexOf("pendingHeader") < i
                  /\ i < IndexOf("pendingFooter")
            /\ IndexOf("pendingFooter") < IndexOf("summary")
       ELSE /\ WrittenPending = <<>>
            /\ ~HasKind("pendingHeader")
            /\ ~HasKind("pendingFooter")

C20_Witness ==
    /\ Ended
    /\ ~cfg.quiet
    /\ Len(pendingEvents) = 2
    /\ pendingBlocks[1] # pendingBlocks[2]
    /\ Len(WrittenPending) = 2

\* A blockComplete event of type pendingTest is handled in this step.
PendingTestHandled ==
    \E ev \in BlockCompleteEvents :
        ev.type = "pendingTest" /\ OnBlockComplete(ev)

(***************************************************************************)
(* C21: pending tests are not failures.  Handling a pendingTest event      *)
(* changes neither errorCount nor testCount, and a run that ends without   *)
(* an error event, whatever tests passed or were pending, writes PASS and  *)
(* exits with status 0.                                                    *)
(***************************************************************************)
C21_PendingIsNoFailure ==
    [][ /\ PendingTestHandled =>
              errorCount' = errorCount /\ testCount' = testCount
        /\ (OnEnd /\ nErrorEvents = 0) =>
              /\ exited'
              /\ exitCode' = 0
              /\ output'[Len(output')] = [kind |-> "PASS"]
              /\ testCount' = nTestCompletes
      ]_vars

C21_Witness ==
    /\ Ended
    /\ nErrorEvents = 0
    /\ Len(pendingEvents) > 0
    /\ nTestCompletes > 0
    /\ exitCode = 0

\* A blockComplete event of type before or after is handled in this step.
BeforeAfterCompleted ==
    \E ev \in BlockCompleteEvents :
        ev.type \in {"before", "after"} /\ OnBlockComplete(ev)

\* The before() and after() duration lines written.
DurationLines == Indices("beforeLine") \cup Indices("afterLine")

(***************************************************************************)
(* C22: a before() or after() duration line is written when a before or    *)
(* after blockComplete is handled if and only if verbose is set.  With     *)
(* verbose such a step appends exactly one duration line, without verbose  *)
(* it writes nothing; and no other step writes a duration line.            *)
(***************************************************************************)
C22_DurationLineIffVerbose ==
    [][ /\ BeforeAfterCompleted =>
              IF cfg.verbose
              THEN /\ Len(output') = Len(output) + 1
                   /\ DurationLines' = DurationLines \cup {Len(output')}
              ELSE output' = output
        /\ ~cfg.verbose => DurationLines' = {}
        /\ ~BeforeAfterCompleted => DurationLines' = DurationLines
      ]_vars

C22_Witness ==
    /\ cfg.verbose
    /\ HasKind("beforeLine")
    /\ HasKind("afterLine")

\* The writes of error blocks.
ErrorBlockWrites == Indices("errorHeader") \cup Indices("errorStack")

\* Where the report of the end handler begins.
ReportStart ==
    IF HasKind("pendingHeader")
    THEN IndexOf("pendingHeader") ELSE IndexOf("summary")

(***************************************************************************)
(* C23, as stated: in the output of a run that ended, the buffered         *)
(* sections (before() and after() lines, pending section) come first,      *)
(* then the error blocks of all captured errors, then the summary, then    *)
(* the banner.                                                             *)
(***************************************************************************)
C23_ErrorSectionInFinalReport ==
    Ended =>
        /\ \A i \in ErrorBlockWrites :
              /\ \A j \in DurationLines : j < i
              /\ HasKind("pendingFooter") => IndexOf("pendingFooter") < i
              /\ i < IndexOf("summary")
        /\ Cardinality(Indices("errorHeader")) = nErrorEvents
        /\ IndexOf("summary") < Len(output)
        /\ output[Len(output)].kind \in {"PASS", "FAIL"}

(***************************************************************************)
(* C23, amended: the report of the end handler is the pending section      *)
(* (header, pending lines, footer; absent when quiet or nothing is         *)
(* pending), then the summary, then the banner, and nothing else.  The     *)
(* error block of every captured error and every before() or after() line  *)
(* was written when its event was handled and precedes the report.         *)
(***************************************************************************)
C23_EndReportOrder ==
    Ended =>
        /\ Len(output) = IndexOf("summary") + 1
        /\ output[Len(output)].kind \in {"PASS", "FAIL"}
        /\ HasKind("pendingHeader") <=> (~cfg.quiet /\ Len(pendingEvents) > 0)
        /\ HasKind("pendingHeader") =>
              /\ IndexOf("pendingFooter") = IndexOf("summary") - 1
              /\ \A i \in IndexOf("pendingHeader") + 1 ..
                          IndexOf("pendingFooter") - 1 :
                    output[i].kind = "pendingLine"
        /\ \A i \in ErrorBlockWrites \cup DurationLines : i < ReportStart
        /\ \A i \in ReportStart .. Len(output) :
              i \notin ErrorBlockWrites \cup DurationLines
        /\ Cardinality(Indices("errorHeader")) = nErrorEvents

C23_Witness ==
    /\ Ended
    /\ nErrorEvents > 0
    /\ HasKind("pendingHeader")
    /\ HasKind("FAIL")

(***************************************************************************)
(* C24, as stated: whenever the process has exited, the summary line has   *)
(* been written.                                                           *)
(***************************************************************************)
C24_SummaryBeforeEveryExit == exited => HasKind("summary")

(***************************************************************************)
(* C24, amended: the summary line is written on the end path only.  A      *)
(* process that exited from the end handler wrote it once, right before    *)
(* the banner; a process that bailed out wrote the maxErrors notice and    *)
(* Exiting last, exited with status 1 and wrote no summary line.           *)
(***************************************************************************)
C24_SummaryOnEndPathOnly ==
    exited =>
        IF HasKind("maxErrorsNotice")
        THEN /\ ~HasKind("summary")
             /\ exitCode = 1
             /\ output[Len(output)].kind = "exiting"
             /\ IndexOf("maxErrorsNotice") = Len(output) - 1
        ELSE /\ Cardinality(Indices("summary")) = 1
             /\ IndexOf("summary") = Len(output) - 1
             /\ output[IndexOf("summary")] =
                   [kind |-> "summary", tests |-> nTestCompletes,
                    errors |-> nErrorEvents]

C24_Witness ==
    /\ BailedOut
    /\ nTestCompletes > 0
    /\ ~HasKind("summary")

\* The output after the step begins with the output before it.
OutputExtended ==
    /\ Len(output') >= Len(output)
    /\ SubSeq(output', 1, Len(output)) = output

(***************************************************************************)
(* C25: errors are rendered in capture order, each with its own block.     *)
(* No step removes or reorders what was written; the step that handles an  *)
(* error event appends the block of that error right after everything      *)
(* written before; and the blocks written are as many as the error events  *)
(* handled.                                                                *)
(***************************************************************************)
C25_ErrorsInCaptureOrder ==
    [][ /\ OutputExtended
        /\ \A err \in ErrorEvents :
              OnError(err) =>
                  /\ Len(output') >= Len(output) + 2
                  /\ SubSeq(output', Len(output) + 1, Len(output) + 2) =
                        reportError(cfg.maxStack, err)
        /\ Cardinality(Indices("errorHeader"))' = nErrorEvents'
      ]_vars

C25_Witness ==
    /\ nErrorEvents = 2
    /\ Len(output) = 4
    /\ output[1].kind = "errorHeader"
    /\ output[3].kind = "errorHeader"
    /\ output[1] # output[3]

(***************************************************************************)
(* Events of the root: the run of main() in which the engine reports       *)
(* blocks and errors whose parents array is empty.                         *)
(***************************************************************************)
RootParents == { <<>>, <<"a">> }

RootStartEvents == { BlockEvent(p, t) : p \in RootParents, t \in StartTypes }

RootCompleteEvents == { BlockEvent(p, t) : p \in RootParents, t \in Types }

RootErrors ==
    { [stack |-> <<"E">>, test |-> n, parentsIsArray |-> TRUE,
       parents |-> <<>>] : n \in {null, "t"} }

RootNext ==
    \/ \E err \in RootErrors : OnError(err)
    \/ \E ev \in RootStartEvents : OnBlockStart(ev)
    \/ \E ev \in RootCompleteEvents : OnBlockComplete(ev)
    \/ OnEnd

RootSpec == Init /\ [][RootNext]_vars

\* The identity getBlockId gives to an empty parents array.
RootId == getBlockId(BlockEvent(<<>>, "test"))

\* The header of the error block written last.
LastErrorHeader ==
    output[CHOOSE i \in Indices("errorHeader") :
               \A j \in Indices("errorHeader") : j <= i].text

(***************************************************************************)
(* C26: an event with empty parents is not tracked.  The registry has no   *)
(* tracker for the identity of the empty parents array and currentBlock    *)
(* never refers to it, while an error with empty parents and no test name  *)
(* is reported under the label Unexpected Testing Error.                   *)
(***************************************************************************)
C26_EmptyParentsNotTracked ==
    /\ RootId \notin DOMAIN blockTrackers
    /\ currentBlock # RootId
    /\ (nErrorEvents > 0 /\ lastErr.test = null) =>
          LastErrorHeader = "Unexpected Testing Error"

\* The start time the duration of this before or after event is taken from.
StartTimeOf(ev) ==
    IF ev.type = "before"
    THEN blockTrackers[getBlockId(ev)].beforeStartTime
    ELSE blockTrackers[getBlockId(ev)].afterStartTime

\* A before or after blockComplete is handled, verbose, for a tracker whose
\* start time of that kind was never recorded.
CompletedWithoutStart ==
    \E ev \in BlockCompleteEvents :
        /\ ev.type \in {"before", "after"}
        /\ cfg.verbose
        /\ ev.parents \in startedParents
        /\ StartTimeOf(ev) = NullTime
        /\ OnBlockComplete(ev)

(***************************************************************************)
(* C27: when a before or after blockComplete is handled for a tracker      *)
(* whose start time was never recorded, the duration line written does     *)
(* not give a number of milliseconds.                                      *)
(***************************************************************************)
C27_UnknownDuration ==
    [][CompletedWithoutStart => output'[Len(output')].ms \notin Int]_vars

(***************************************************************************)
(* The options of main() in index.js: the defaults, extended by every      *)
(* config.js file, then overridden by the numbers given on the command     *)
(* line.  The pattern option takes no part in what is checked and is left  *)
(* out.                                                                    *)
(***************************************************************************)
MaxConfigFiles == 2     \* config.js files discovered

DEFAULT_TIMEOUT == 5000
DEFAULT_MAX_ERRORS == Infinity
DEFAULT_MAX_STACK == 5

NumberKeys == {"timeout", "maxErrors", "maxStack"}

\* typeof n === `number` && !isNaN(n)
isNumber(n) == n \notin {Undefined, NaN}

\* n < 0, false for what is not a number
isNegative(n) == isNumber(n) /\ ~n.inf /\ n.n < 0

\* What a command line may give: nothing, something that is no number, a
\* number; for maxErrors also -1.
ArgvValues ==
    [timeout : {Undefined, NaN, Num(3)},
     maxErrors : {Undefined, NaN, Num(3), Num(-1)},
     maxStack : {Undefined, NaN, Num(3)},
     verbose : BOOLEAN,
     quiet : BOOLEAN]

\* What a config.js may export for a key.
ConfigValues(k) == IF k = "maxErrors" THEN {Num(4), Num(-1)} ELSE {Num(4)}

\* The exports of a config.js: any of the three keys.
ConfigExports ==
    UNION { { f \in [ks -> {Num(4), Num(-1)}] :
                \A k \in ks : f[k] \in ConfigValues(k) } :
            ks \in SUBSET NumberKeys }

RECURSIVE ConfigFileLists(_)
ConfigFileLists(n) ==
    IF n = 0 THEN { <<>> }
    ELSE ConfigFileLists(n - 1)
         \cup { Append(l, f) : l \in { m \in ConfigFileLists(n - 1) :
                                          Len(m) = n - 1 },
                               f \in ConfigExports }

\* Object.assign({}, target, source)
assign(target, source) ==
    [k \in DOMAIN target \cup DOMAIN source |->
        IF k \in DOMAIN source THEN source[k] ELSE target[k]]

\* configFiles.reduce(..., options)
RECURSIVE reduce(_, _)
reduce(files, opts) ==
    IF files = <<>> THEN opts
    ELSE reduce(Tail(files), assign(opts, files[1]))

\* options.verbose || false
orFalse(opts, k) == IF k \in DOMAIN opts THEN opts[k] ELSE FALSE

\* The command line values put first and the config.js files over them.
mergeOptionsConfigLast(av, files) ==
    LET given == { k \in NumberKeys : isNumber(av[k]) }
        defaults == [timeout |-> Num(DEFAULT_TIMEOUT),
                     maxErrors |-> DEFAULT_MAX_ERRORS,
                     maxStack |-> Num(DEFAULT_MAX_STACK)]
        cli == assign(defaults, [k \in given |-> av[k]])
        extended == reduce(files, cli)
    IN  [timeout |-> extended.timeout,
         maxErrors |-> IF isNegative(extended.maxErrors)
                       THEN Infinity ELSE extended.maxErrors,
         maxStack |-> extended.maxStack,
         verbose |-> IF av.verbose THEN TRUE ELSE orFalse(extended, "verbose"),
         quiet |-> IF av.quiet THEN TRUE ELSE orFalse(extended, "quiet")]

\* main(): the options it hands to the runner.
mergeOptions(av, files) ==
    LET defaults == [timeout |-> Num(DEFAULT_TIMEOUT),
                     maxErrors |-> DEFAULT_MAX_ERRORS,
                     maxStack |-> Num(DEFAULT_MAX_STACK)]
        extended == reduce(files, defaults)
        cli == [k \in DOMAIN extended |->
                   IF k \in NumberKeys /\ isNumber(av[k])
                   THEN av[k] ELSE extended[k]]
    IN  [timeout |-> cli.timeout,
         maxErrors |-> IF isNegative(cli.maxErrors)
                       THEN Infinity ELSE cli.maxErrors,
         maxStack |-> cli.maxStack,
         verbose |-> IF av.verbose THEN TRUE ELSE orFalse(extended, "verbose"),
         quiet |-> IF av.quiet THEN TRUE ELSE orFalse(extended, "quiet")]

\* main() is called: nothing is merged yet.
OptionsInit ==
    /\ argv \in ArgvValues
    /\ configFiles \in ConfigFileLists(MaxConfigFiles)
    /\ options = Undefined
    /\ cfg \in HookConfigs
    /\ blockTrackers = <<>>
    /\ pendingBlocks = <<>>
    /\ testCount = 0
    /\ errorCount = 0
    /\ currentBlock = null
    /\ now = 1
    /\ output = <<>>
    /\ exited = FALSE
    /\ exitCode = 0
    /\ nEvents = 0
    /\ nErrorEvents = 0
    /\ nTestCompletes = 0
    /\ startedParents = {}
    /\ isNewCount = <<>>
    /\ lastErr = NoError
    /\ pendingEvents = <<>>
    /\ setups = <<>>
    /\ teardowns = <<>>
    /\ runStarted = FALSE
    /\ errors = <<>>
    /\ paths = <<>>
    /\ loadIndex = 0
    /\ testFileLoadCount = 0

\* main(): from the defaults to the options passed on.
MergeOptions ==
    /\ options = Undefined
    /\ options' = mergeOptions(argv, configFiles)
    /\ UNCHANGED <<argv, configFiles, cfg, blockTrackers, pendingBlocks,
                   testCount, errorCount, currentBlock, now, output, exited,
                   exitCode, nEvents, nErrorEvents, nTestCompletes,
                   startedParents, isNewCount, lastErr, pendingEvents>>
    /\ UNCHANGED hookVars
    /\ UNCHANGED loadVars

OptionsNext == MergeOptions

OptionsSpec == OptionsInit /\ [][OptionsNext]_vars

\* The config.js files that export key k, by their place in the list.
Exporting(k) == { i \in 1..Len(configFiles) : k \in DOMAIN configFiles[i] }

\* The last of a nonempty set of places.
Last(places) == CHOOSE i \in places : \A j \in places : j <= i

\* The built-in default of key k.
DefaultOf(k) ==
    IF k = "timeout" THEN Num(DEFAULT_TIMEOUT)
    ELSE IF k = "maxErrors" THEN DEFAULT_MAX_ERRORS
    ELSE Num(DEFAULT_MAX_STACK)

\* The value of key k by precedence: command line, config.js, default.
Preferred(k) ==
    IF isNumber(argv[k]) THEN argv[k]
    ELSE IF Exporting(k) # {} THEN configFiles[Last(Exporting(k))][k]
    ELSE DefaultOf(k)

\* The options have been merged.
Merged == options # Undefined

\* C28 as stated: for each of timeout, maxErrors and maxStack the effective
\* value is the command line value when one is given as a number, otherwise
\* the value from config.js when present, otherwise the built-in default.
C28_PreferredValueIsEffective ==
    Merged => \A k \in NumberKeys : options[k] = Preferred(k)

\* C28: for each of timeout, maxErrors and maxStack the effective value is
\* the command line value when one is given as a number, otherwise the value
\* of the last config.js exporting it, otherwise the built-in default, where
\* a negative maxErrors so chosen counts as Infinity; a config.js value never
\* takes the place of a number given on the command line.
C28_ConfigurationPrecedence ==
    Merged =>
        /\ options.timeout = Preferred("timeout")
        /\ options.maxStack = Preferred("maxStack")
        /\ options.maxErrors = IF isNegative(Preferred("maxErrors"))
                               THEN Infinity ELSE Preferred("maxErrors")
        /\ \A k \in NumberKeys :
               isNumber(argv[k]) /\ ~isNegative(argv[k])
                   => options[k] = argv[k]

\* Merged with every key given as a number on the command line and exported
\* with another value by a config.js: the command line values are the
\* effective ones.
C28_Witness ==
    /\ Merged
    /\ \A k \in NumberKeys :
           /\ isNumber(argv[k])
           /\ ~isNegative(argv[k])
           /\ Exporting(k) # {}
           /\ configFiles[Last(Exporting(k))][k] # argv[k]
           /\ options[k] = argv[k]

(***************************************************************************)
(* The registry and the counters over the run.                             *)
(***************************************************************************)
\* What createBlockTracker captures of the event.
Captured(tracker) ==
    [id |-> tracker.id, name |-> tracker.name,
     type |-> tracker.type, test |-> tracker.test]

\* A blockComplete of a pendingTest with the identity id has been handled.
PendingCompleted(id) ==
    \E i \in 1..Len(pendingEvents) : getBlockId(pendingEvents[i]) = id

\* C29: a tracker's type and test are captured only at creation: whatever
\* further blockStart or blockComplete event is processed, a tracker that
\* exists keeps its id, name, type and test.
C29_CapturedAtCreationOnly ==
    [][\A id \in DOMAIN blockTrackers \cap DOMAIN blockTrackers' :
           Captured(blockTrackers'[id]) = Captured(blockTrackers[id])]_vars

\* A tracker created by a before event, after a blockStart of type after
\* and a blockComplete of a pendingTest with its identity were processed.
C29_Witness ==
    \E id \in DOMAIN blockTrackers :
        /\ blockTrackers[id].type = "before"
        /\ blockTrackers[id].test = null
        /\ blockTrackers[id].afterStartTime # NullTime
        /\ PendingCompleted(id)

\* C30: run state accumulates monotonically: no step removes a tracker from
\* the registry, and errorCount, testCount and the length of the pending
\* buffer never decrease.
C30_RunStateMonotonic ==
    [][/\ DOMAIN blockTrackers \subseteq DOMAIN blockTrackers'
       /\ errorCount' >= errorCount
       /\ testCount' >= testCount
       /\ Len(pendingBlocks') >= Len(pendingBlocks)]_vars

\* A run at its end with two trackers, an error, a test and a pending test.
C30_Witness ==
    /\ exited
    /\ Cardinality(DOMAIN blockTrackers) >= 2
    /\ errorCount + testCount + Len(pendingBlocks) >= 1

(***************************************************************************)
(* What the blockStart handler touches.                                    *)
(***************************************************************************)
\* The start time `field` of the tracker of id before the step; null when
\* the step is the one that constructs the tracker.
StartTimeBefore(id, field) ==
    IF id \in DOMAIN blockTrackers THEN blockTrackers[id][field] ELSE NullTime

\* The two start times of every tracker but the one of id are kept.
OtherStartTimesKept(id) ==
    \A other \in DOMAIN blockTrackers \ {id} :
        /\ other \in DOMAIN blockTrackers'
        /\ blockTrackers'[other].beforeStartTime
               = blockTrackers[other].beforeStartTime
        /\ blockTrackers'[other].afterStartTime
               = blockTrackers[other].afterStartTime

\* C31: a blockStart of type before sets only beforeStartTime of the tracker
\* of the event's identity, type after only afterStartTime of that tracker,
\* any other type neither; the start times of every other tracker,
\* testCount, errorCount and the pending buffer are unchanged.
C31_BlockStartFrame ==
    [][\A ev \in BlockStartEvents :
          OnBlockStart(ev) =>
              LET id == getBlockId(ev)
              IN  /\ id \in DOMAIN blockTrackers'
                  /\ blockTrackers'[id].beforeStartTime =
                         IF ev.type = "before" THEN now'
                         ELSE StartTimeBefore(id, "beforeStartTime")
                  /\ blockTrackers'[id].afterStartTime =
                         IF ev.type = "after" THEN now'
                         ELSE StartTimeBefore(id, "afterStartTime")
                  /\ OtherStartTimesKept(id)
                  /\ testCount' = testCount
                  /\ errorCount' = errorCount
                  /\ pendingBlocks' = pendingBlocks]_vars

\* Three blockStart events were processed: one tracker has only its before
\* start time set, the other only its after start time, although a third
\* blockStart came after both.
C31_Witness ==
    /\ nEvents = 3
    /\ nErrorEvents = 0
    /\ testCount = 0
    /\ pendingBlocks = <<>>
    /\ output = <<>>
    /\ \E x, y \in DOMAIN blockTrackers :
           /\ x # y
           /\ blockTrackers[x].beforeStartTime # NullTime
           /\ blockTrackers[x].afterStartTime = NullTime
           /\ blockTrackers[y].beforeStartTime = NullTime
           /\ blockTrackers[y].afterStartTime # NullTime

(***************************************************************************)
(* reportError over the error values it may be given: with or without a    *)
(* test name, without parents, with empty parents, with one and with two   *)
(* parents.                                                                *)
(***************************************************************************)
LabelErrors ==
    { [stack |-> <<"E">>, test |-> n, parentsIsArray |-> TRUE,
       parents |-> p] : n \in {null, "t"},
                        p \in { <<>>, <<"a">>, <<"a", "b">> } }
    \cup
    { [stack |-> <<"E">>, test |-> n, parentsIsArray |-> FALSE,
       parents |-> <<>>] : n \in {null, "t"} }

LabelNext == \E err \in LabelErrors : OnError(err)

LabelSpec == Init /\ [][LabelNext]_vars

\* An error was reported, and this is the one reported last.
Reported(err) == nErrorEvents > 0 /\ lastErr = err

\* The error carries a test name.
HasTestName(err) == Truthy(err.test)

\* The error carries a block identity that is not empty.
HasIdentity(err) == Truthy(getBlockId(err))

(***************************************************************************)
(* C32: the label of the error header.  With a test name and a non-empty   *)
(* identity it is the identity followed by the test name (next to each     *)
(* other or with blanks between); with only a test name it is the test     *)
(* name; with only an identity it is the identity; with neither it is      *)
(* Unexpected Testing Error.                                               *)
(***************************************************************************)
C32_HeaderLabel ==
    \A err \in LabelErrors :
        Reported(err) =>
            LET id == getBlockId(err)
            IN  IF HasTestName(err) /\ HasIdentity(err)
                THEN LastErrorHeader \in { id \o err.test,
                                           id \o " " \o err.test,
                                           id \o "  " \o err.test }
                ELSE IF HasTestName(err) THEN LastErrorHeader = err.test
                ELSE IF HasIdentity(err) THEN LastErrorHeader = id
                ELSE LastErrorHeader = "Unexpected Testing Error"

(***************************************************************************)
(* The start times of one identity and the events of another.              *)
(***************************************************************************)
\* The step is a blockStart of this type for the identity id.
StartedNow(id, type) ==
    \E ev \in BlockStartEvents :
        /\ getBlockId(ev) = id
        /\ ev.type = type
        /\ OnBlockStart(ev)

\* The step changes the start time `field` of the tracker of id.
StartTimeChanged(id, field) ==
    \/ id \notin DOMAIN blockTrackers'
    \/ blockTrackers'[id][field] # blockTrackers[id][field]

\* The line a verbose blockComplete of type before or after writes when the
\* duration is counted from the start time `start`.
DurationLine(ev, start) ==
    [kind |-> IF ev.type = "before" THEN "beforeLine" ELSE "afterLine",
     text |-> getBlockId(ev),
     ms |-> now' - start]

(***************************************************************************)
(* C33: per-identity timing is isolated.  The before (after) start time of *)
(* the tracker of an identity is what the most recent before (after)       *)
(* blockStart of that identity recorded: only such a blockStart changes    *)
(* it, and it sets it to the time of that event; the duration written when *)
(* a before (after) blockComplete of the identity is processed is counted  *)
(* from that start time, whatever events of other identities came between. *)
(***************************************************************************)
C33_TimingPerIdentity ==
    [][/\ \A id \in DOMAIN blockTrackers :
            /\ StartTimeChanged(id, "beforeStartTime")
                   => StartedNow(id, "before")
            /\ StartTimeChanged(id, "afterStartTime")
                   => StartedNow(id, "after")
       /\ \A id \in DOMAIN blockTrackers' :
            /\ StartedNow(id, "before")
                   => blockTrackers'[id].beforeStartTime = now'
            /\ StartedNow(id, "after")
                   => blockTrackers'[id].afterStartTime = now'
       /\ \A ev \in BlockCompleteEvents :
            (/\ ev.type \in {"before", "after"}
             /\ cfg.verbose
             /\ ev.parents \in startedParents
             /\ StartTimeOf(ev) # NullTime
             /\ OnBlockComplete(ev))
                => output' = Append(output,
                                    DurationLine(ev, StartTimeOf(ev)))]_vars

\* The duration of a before block was written last, counted from the start
\* of its own identity, after the before block of another identity had
\* started later.
C33_Witness ==
    /\ output # <<>>
    /\ output[Len(output)].kind = "beforeLine"
    /\ \E x, y \in DOMAIN blockTrackers :
           /\ x # y
           /\ output[Len(output)].text = x
           /\ blockTrackers[x].beforeStartTime # NullTime
           /\ blockTrackers[y].beforeStartTime
                  > blockTrackers[x].beforeStartTime
           /\ output[Len(output)].ms = now - blockTrackers[x].beforeStartTime
           /\ currentBlock = y

\* The identity under which the blockComplete handler looks up the tracker
\* of each event it may be given.
CompleteId == [ev \in BlockCompleteEvents |-> getBlockId(ev)]

(***************************************************************************)
(* C34: when each blockComplete is preceded by a blockStart with the same  *)
(* parents, the blockComplete handler finds a tracker for the identity of  *)
(* its event, whatever the type of the event: every parents array that a   *)
(* blockStart was processed for has its tracker in the registry.           *)
(***************************************************************************)
C34_TrackerExistsAtComplete ==
    \A ev \in BlockCompleteEvents :
        ev.parents \in startedParents
            => CompleteId[ev] \in DOMAIN blockTrackers

\* A blockComplete of a pendingTest was handled for a block started as a
\* before block, and a blockComplete of a test may be handled next.
C34_Witness ==
    /\ pendingEvents # <<>>
    /\ pendingEvents[1].parents \in startedParents
    /\ blockTrackers[getBlockId(pendingEvents[1])].type = "before"
    /\ pendingBlocks # <<>>
    /\ ENABLED OnBlockComplete(BlockEvent(pendingEvents[1].parents, "test"))

(***************************************************************************)
(* main(): the chain that loads the test files, one path after the other,  *)
(* and then starts the engine.  What is found at a path is an input:       *)
(*   "function"     a test file whose import gives a function;             *)
(*   "throws"       a test file whose function runner.describe() rejects;  *)
(*   "notFunction"  a test file whose import gives something else;         *)
(*   "importError"  a test file whose import is rejected;                  *)
(*   "notTestFile"  no file, or a file that is no test file;               *)
(*   "unreadable"   a directory that fs.readdirSync() fails to read.       *)
(***************************************************************************)
MaxPaths == 3           \* paths main() is to load

PathKinds == {"function", "throws", "notFunction", "importError",
              "notTestFile", "unreadable"}

RECURSIVE PathLists(_)
PathLists(n) ==
    IF n = 0 THEN { <<>> }
    ELSE PathLists(n - 1)
         \cup { Append(l, k) : l \in { m \in PathLists(n - 1) :
                                          Len(m) = n - 1 },
                               k \in PathKinds }

\* The stack of the error a rejected import or describe() carries.
LoadErrorStack == <<"E">>

\* The engine started although no test file was loaded.
shouldRunAlways(count) == count >= 0

\* testFileLoadCount > 0
shouldRun(count) == count > 0

\* main() has set up its state and the runner; nothing is loaded yet.
LoadInit ==
    /\ cfg \in HookConfigs
    /\ paths \in PathLists(MaxPaths)
    /\ loadIndex = 0
    /\ testFileLoadCount = 0
    /\ blockTrackers = <<>>
    /\ pendingBlocks = <<>>
    /\ testCount = 0
    /\ errorCount = 0
    /\ currentBlock = null
    /\ now = 1
    /\ output = <<>>
    /\ exited = FALSE
    /\ exitCode = 0
    /\ nEvents = 0
    /\ nErrorEvents = 0
    /\ nTestCompletes = 0
    /\ startedParents = {}
    /\ isNewCount = <<>>
    /\ lastErr = NoError
    /\ pendingEvents = <<>>
    /\ setups = <<>>
    /\ teardowns = <<>>
    /\ runStarted = FALSE
    /\ errors = <<>>
    /\ argv = Undefined
    /\ configFiles = <<>>
    /\ options = Undefined

\* What the steps of the load chain leave alone.
loadFrame == <<cfg, blockTrackers, pendingBlocks, testCount, errorCount,
               currentBlock, now, nEvents, nErrorEvents, nTestCompletes,
               startedParents, isNewCount, lastErr, pendingEvents,
               setups, teardowns, errors, argv, configFiles, options,
               paths>>

\* The path the chain has come to.
NextPath == paths[loadIndex + 1]

\* The chain has a path left to walk.
Loading == ~exited /\ loadIndex < Len(paths)

\* walkFilePath(filepath) for what is no test file: nothing is loaded.
WalkFilePath ==
    /\ Loading
    /\ NextPath = "notTestFile"
    /\ loadIndex' = loadIndex + 1
    /\ UNCHANGED <<testFileLoadCount, output, runStarted>>
    /\ NoExit
    /\ UNCHANGED loadFrame

\* loadTestFile(filepath): the import and what follows it.
LoadTestFile ==
    /\ Loading
    /\ NextPath \in {"function", "throws", "notFunction", "importError"}
    /\ IF NextPath = "function"
       THEN /\ testFileLoadCount' = testFileLoadCount + 1
            /\ loadIndex' = loadIndex + 1
            /\ output' = output
            /\ NoExit
       ELSE IF NextPath = "throws"
       THEN /\ testFileLoadCount' = testFileLoadCount + 1
            /\ loadIndex' = loadIndex
            /\ output' = output \o << [kind |-> "unableToLoad"] >>
                                \o exitWithError(LoadErrorStack)
            /\ Exit(1)
       ELSE IF NextPath = "notFunction"
       THEN /\ testFileLoadCount' = testFileLoadCount
            /\ loadIndex' = loadIndex
            /\ output' = output \o << [kind |-> "mustExport"] >>
                                \o exitWithError(<<>>)
            /\ Exit(1)
       ELSE /\ testFileLoadCount' = testFileLoadCount
            /\ loadIndex' = loadIndex
            /\ output' = output \o << [kind |-> "unableToLoad"] >>
                                \o exitWithError(LoadErrorStack)
            /\ Exit(1)
    /\ UNCHANGED runStarted
    /\ UNCHANGED loadFrame

\* The catch at the end of the chain: walkFilePath(filepath) threw.
LoadFailure ==
    /\ Loading
    /\ NextPath = "unreadable"
    /\ output' = output \o << [kind |-> "unexpectedError"] >>
                        \o exitWithError(LoadErrorStack)
    /\ Exit(1)
    /\ UNCHANGED <<loadIndex, testFileLoadCount, runStarted>>
    /\ UNCHANGED loadFrame

\* The callback at the end of the chain: runner.run(), or no test files.
LoadComplete ==
    /\ ~exited
    /\ loadIndex = Len(paths)
    /\ loadIndex' = loadIndex + 1
    /\ IF shouldRun(testFileLoadCount)
       THEN /\ runStarted' = TRUE
            /\ output' = output
            /\ NoExit
       ELSE /\ runStarted' = runStarted
            /\ output' = output \o << [kind |-> "noTestFiles"] >>
            /\ Exit(0)
    /\ UNCHANGED testFileLoadCount
    /\ UNCHANGED loadFrame

LoadNext ==
    \/ WalkFilePath
    \/ LoadTestFile
    \/ LoadFailure
    \/ LoadComplete

LoadSpec == LoadInit /\ [][LoadNext]_vars

\* The places of the paths at which a test file is loaded.
LoadedFiles == { i \in DOMAIN paths : paths[i] = "function" }

\* The places of the paths at which the loading fails.
FailingFiles ==
    { i \in DOMAIN paths :
        paths[i] \in {"throws", "notFunction", "importError", "unreadable"} }

\* The chain has walked every path and its last callback has run.
ChainSettled == loadIndex = Len(paths) + 1

(***************************************************************************)
(* C35: the engine run is started at most once, only after the loading of  *)
(* every test file has finished successfully and at least one test file    *)
(* was loaded.  When no test file was loaded the engine is never run and   *)
(* the process exits with status 0; when a test file fails to load or does *)
(* not export a function the engine is never run and the process exits     *)
(* with status 1.  The chain stops only with the engine started or the     *)
(* process exited.                                                         *)
(***************************************************************************)
C35_EngineRunAfterLoading ==
    /\ [](runStarted =>
            /\ ChainSettled
            /\ FailingFiles = {}
            /\ LoadedFiles # {}
            /\ testFileLoadCount = Cardinality(LoadedFiles)
            /\ ~exited)
    /\ [][runStarted => ~LoadComplete]_vars
    /\ []((FailingFiles = {} /\ LoadedFiles = {}) =>
            /\ ~runStarted
            /\ ChainSettled <=> exited
            /\ exited => exitCode = 0)
    /\ [](FailingFiles # {} =>
            /\ ~runStarted
            /\ ~ChainSettled
            /\ exited => exitCode = 1)
    /\ [](~ENABLED LoadNext => runStarted \/ exited)

\* The engine was started after three paths: a test file, something that
\* is no test file, and a second test file.
C35_Witness ==
    /\ runStarted
    /\ paths = <<"function", "notTestFile", "function">>
    /\ testFileLoadCount = 2

(***************************************************************************)
(* C36: after every blockStart the current block is the tracker that the   *)
(* registry holds under the identity of the event, and that tracker        *)
(* carries the identity as its id; currentBlock is null only before the    *)
(* first blockStart.                                                       *)
(***************************************************************************)
C36_CurrentBlockIsRegistered ==
    [][/\ \A ev \in BlockStartEvents :
            OnBlockStart(ev) =>
                /\ currentBlock' = getBlockId(ev)
                /\ currentBlock' \in DOMAIN blockTrackers'
                /\ blockTrackers'[currentBlock'].id = getBlockId(ev)
       /\ (currentBlock' = null) <=> (startedParents' = {})
       /\ currentBlock # null => currentBlock' # null]_vars

\* Three blockStart events were processed, of two identities, and the
\* current block is again the tracker of the block a, which has started
\* its before and its after block.
C36_Witness ==
    /\ nEvents = 3
    /\ output = <<>>
    /\ nErrorEvents = 0
    /\ Cardinality(DOMAIN blockTrackers) = 2
    /\ currentBlock = "a"
    /\ blockTrackers["a"].id = "a"
    /\ blockTrackers["a"].afterStartTime # NullTime
    /\ \E other \in DOMAIN blockTrackers \ {"a"} :
           /\ blockTrackers[other].beforeStartTime # NullTime
           /\ isNewCount[other] = 1

====
